---- MODULE Spec2Model ----
(***************************************************************************)
(* A model of omzmini.py: one invocation of main() that runs               *)
(* sync_plugins_and_theme for --sync and/or --restore, and fetch_file for  *)
(* every file of the run, over a file system that an earlier use of the    *)
(* tool may already have populated.  upgrade_self, run_doctor and run_list *)
(* are left out: they take no part in a sync or restore run.               *)
(*                                                                         *)
(* Local I/O errors are those of the destination file: a file that cannot  *)
(* be read (sha256, line 66), bytes that do not decode (line 71), a file   *)
(* that cannot be opened for writing (line 82).  Each raises before the    *)
(* call has changed anything, and nothing in the program catches it.       *)
(*                                                                         *)
(* Paths are records [dir, name, ext] (the string "lib/history.zsh" is     *)
(* [dir |-> <<"lib">>, name |-> "history", ext |-> ".zsh"]); a local path  *)
(* is [base, rel] with base the directory the relative part is joined to.  *)
(* File contents are records [src, ver, text]; sha256 is modelled as a     *)
(* collision-free re-encoding of the content.                              *)
(***************************************************************************)
EXTENDS Integers, Sequences, FiniteSets, TLC

\* ---------------------------------------------------------------- bounds
\* Clock values are 0..MaxTime (one value per timestamp second).
MaxTime == 1
\* The remote repository passes through commits 1..MaxVer.
MaxVer == 2

\* ---------------------------------------------------------------- paths
HOME == <<"home", "user">>

OHMYZSH_DIR == HOME \o <<".oh-my-zsh">>

\* The working directory relative pin arguments are resolved against.
Cwd == HOME

P(dir, name, ext) == [dir |-> dir, name |-> name, ext |-> ext]

CORE_FILES == << P(<<>>, "oh-my-zsh", ".sh") >>

LIB_FILES ==
  << P(<<"lib">>, "completion", ".zsh"),
     P(<<"lib">>, "history", ".zsh"),
     P(<<"lib">>, "key-bindings", ".zsh"),
     P(<<"lib">>, "termcap", ".zsh") >>

TOOLS_FILES ==
  << P(<<"tools">>, "upgrade", ".sh"),
     P(<<"tools">>, "install", ".sh"),
     P(<<"tools">>, "uninstall", ".sh") >>

\* plugin_file = f"plugins/{plugin}/{plugin}.plugin.zsh"
plugin_file(plugin) == P(<<"plugins", plugin>>, plugin, ".plugin.zsh")

\* theme_file = f"themes/{theme}.zsh-theme"
theme_file(t) == P(<<"themes">>, t, ".zsh-theme")

\* os.path.join(OHMYZSH_DIR, f)
Dest(f) == [base |-> OHMYZSH_DIR, rel |-> f]

\* Path(p).resolve(): a relative path is made absolute against the working
\* directory; the install root holds no symbolic links.
Resolve(p) == IF p.base = <<>> THEN [base |-> Cwd, rel |-> p.rel] ELSE p

\* os.path.dirname(dest), with every ancestor os.makedirs creates below the
\* install root.
Dirname(dest) == dest.rel.dir

Ancestors(dir) == { SubSeq(dir, 1, k) : k \in 0..Len(dir) }

Range(s) == { s[k] : k \in 1..Len(s) }

\* ---------------------------------------------------------------- contents
Absent == [src |-> "absent", ver |-> 0, text |-> TRUE]

LocalText == [src |-> "local", ver |-> 0, text |-> TRUE]

\* A local file whose bytes are not valid UTF-8.
LocalBinary == [src |-> "local", ver |-> 0, text |-> FALSE]

RemoteContent(path, v) == [src |-> "remote", ver |-> v, text |-> TRUE]

\* hashlib.sha256(...).hexdigest(): deterministic and collision-free.
Hash(c) == <<"sha256", c.src, c.ver, c.text>>

\* ---------------------------------------------------------------- inputs
PluginIds == {"git", "nosuch"}

ThemeNames == {"robbyrussell"}

Line(marker, delim, toks) == [marker |-> marker, delim |-> delim, toks |-> toks]

\* The declaration files tried: none, a well-formed one, one that declares a
\* plugin twice, and one whose theme is not quoted.
ZshrcChoices ==
  { [exists |-> FALSE, lines |-> <<>>],
    [exists |-> TRUE,
     lines |-> << Line("other", FALSE, <<>>),
                  Line("plugins=", TRUE, <<"git", "nosuch">>),
                  Line("ZSH_THEME=", TRUE, <<"robbyrussell">>) >>],
    [exists |-> TRUE,
     lines |-> << Line("plugins=", TRUE, <<"git", "git">>),
                  Line("ZSH_THEME=", TRUE, <<"">>) >>],
    [exists |-> TRUE,
     lines |-> << Line("ZSH_THEME=", FALSE, <<"robbyrussell">>) >>] }

AllPaths ==
  Range(CORE_FILES) \cup Range(LIB_FILES) \cup Range(TOOLS_FILES)
  \cup { plugin_file(p) : p \in PluginIds } \cup { theme_file(t) : t \in ThemeNames }

Dests == { Dest(f) : f \in AllPaths }

\* The file the user edits, protects or pins in the inputs tried.
Watched == LIB_FILES[2]

\* --pin arguments tried: none, the watched file by absolute path, the
\* watched file by a path relative to the working directory.
PinArgChoices ==
  { <<>>,
    << Dest(Watched) >>,
    << [base |-> <<>>, rel |-> Watched] >> }

\* pinned.txt tried: missing, or one line naming the watched file.
PinFileChoices ==
  { [exists |-> FALSE, lines |-> <<>>],
    [exists |-> TRUE, lines |-> << Dest(Watched) >>] }

\* Remote paths that fail at transport level in the inputs tried: a plugin
\* the remote repository does not have (HTTP 404), alone or together with a
\* library file that times out.
UnreachableChoices ==
  { { plugin_file("nosuch") }, { plugin_file("nosuch"), LIB_FILES[3] } }

VARIABLES
  fs,          \* destination -> content (Absent when there is no file)
  perm,        \* destination -> "rw", "ro" (not writable) or "none" (not readable)
  dirs,        \* directories that exist below the install root
  backups,     \* the files <dest>.<timestamp>: records [dest, ts, data]
  hashfile,    \* HASHFILE: the lines of the hash ledger
  logfile,     \* LOGFILE: the lines of the audit log
  fetches,     \* the urlopen calls made, by remote path
  now,         \* the clock, in seconds
  remoteVer,   \* the commit the remote repository is at
  unreachable, \* remote paths that fail at transport level
  zshrc,       \* ~/.zshrc
  args,        \* the parsed command line
  pinned,      \* main's pin set
  pc,          \* where main is
  run,         \* the arguments of the running sync_plugins_and_theme call
  phase,       \* the loop of sync_plugins_and_theme that is running
  i,           \* the index of that loop's next element
  processed,   \* the remote paths fetch_file was called with in this run
  last,        \* the latest fetch_file call: its path and what the destination held
  started,     \* the sync_plugins_and_theme calls entered by this process
  log0         \* the length of the audit log when the process started

vars == << fs, perm, dirs, backups, hashfile, logfile, fetches, now, remoteVer,
           unreachable, zshrc, args, pinned, pc, run, phase, i, processed, last,
           started, log0 >>

\* ---------------------------------------------------------------- parse_zshrc
NoDecl == [plugins |-> <<>>, theme |-> "", raised |-> FALSE]

\* The loop over the lines of the file: the last plugins= line and the last
\* ZSH_THEME= line win; a marker without its "(" or its '"' raises IndexError.
\* theme None and theme "" are both the empty string here (both are falsy).
RECURSIVE ParseLines(_, _, _)
ParseLines(lines, k, acc) ==
  IF k > Len(lines) THEN acc
  ELSE LET line == lines[k] IN
    IF line.marker = "plugins="
    THEN IF line.delim
         THEN ParseLines(lines, k + 1, [acc EXCEPT !.plugins = line.toks])
         ELSE [acc EXCEPT !.raised = TRUE]
    ELSE IF line.marker = "ZSH_THEME="
    THEN IF line.delim
         THEN ParseLines(lines, k + 1, [acc EXCEPT !.theme = line.toks[1]])
         ELSE [acc EXCEPT !.raised = TRUE]
    ELSE ParseLines(lines, k + 1, acc)

parse_zshrc(z) == IF ~z.exists THEN NoDecl ELSE ParseLines(z.lines, 1, NoDecl)

\* ---------------------------------------------------------------- log
NoPath == P(<<>>, "", "")

\* One line of the audit log: "[ts] msg".
LogLine(kind, path) == [ts |-> now, kind |-> kind, path |-> path]

\* ---------------------------------------------------------------- fetch_file
exists(dest) == fs[dest] # Absent

\* sha256(file_path); the caller has checked that the file can be read.
sha256(dest) == Hash(fs[dest])

\* dest_path in pinned
IsPinned(dest) == Resolve(dest) \in pinned

\* urllib.request.urlopen(url).read()
FetchFails(path) == path \in unreachable

Data(path) == RemoteContent(path, remoteVer)

\* Variant: the digest of the local file is compared with the fetched bytes
\* themselves, so an existing file always counts as changed.
DiffersAlways(dest, data) == sha256(dest) # << data >>

\* old_hash != new_hash
Differs(dest, data) == sha256(dest) # Hash(data)

\* Variant: the dry-run branch is taken before the pin check.
OutcomeDryFirst(path, dest, dry_run, diff) ==
  IF dry_run THEN "dry"
  ELSE IF IsPinned(dest) THEN "pinned"
  ELSE IF FetchFails(path) THEN "failed"
  ELSE IF exists(dest)
       THEN IF perm[dest] = "none" THEN "raise_hash"
            ELSE IF Differs(dest, Data(path))
                 THEN IF diff /\ ~fs[dest].text THEN "raise_diff" ELSE "backup_write"
                 ELSE IF perm[dest] = "ro" THEN "raise_write" ELSE "write"
       ELSE "write"

\* What one call of fetch_file comes to, in the order the code decides it.
Outcome(path, dest, dry_run, diff) ==
  IF IsPinned(dest) THEN "pinned"
  ELSE IF dry_run THEN "dry"
  ELSE IF FetchFails(path) THEN "failed"
  ELSE IF exists(dest)
       THEN IF perm[dest] = "none" THEN "raise_hash"
            ELSE IF Differs(dest, Data(path))
                 THEN IF diff /\ ~fs[dest].text THEN "raise_diff" ELSE "backup_write"
                 ELSE IF perm[dest] = "ro" THEN "raise_write" ELSE "write"
       ELSE "write"

\* Variant: urlopen is called outside the try block, so a transport failure
\* leaves fetch_file too.
RaisesOnFetchFailure(outcome) ==
  outcome \in {"raise_hash", "raise_diff", "raise_write", "failed"}

\* The outcomes that leave fetch_file by an exception nothing catches.
Raises(outcome) == outcome \in {"raise_hash", "raise_diff", "raise_write"}

\* backup = f"{dest}.{ts}"; shutil.move(dest, backup) replaces a file of that name.
MoveToBackup(dest) ==
  { b \in backups : ~(b.dest = dest /\ b.ts = now) }
  \cup { [dest |-> dest, ts |-> now, data |-> fs[dest]] }

\* Variant: the digest is taken before the fetched bytes are written.
LedgerLineStale(path, dest) == [path |-> path, digest |-> Hash(fs[dest])]

\* f"{path} {sha256(dest)}": the digest of the file as it is after the write.
LedgerLine(path, dest) == [path |-> path, digest |-> Hash(fs'[dest])]

fetch_file(path, dest, dry_run, diff) ==
  LET out  == Outcome(path, dest, dry_run, diff)
      data == Data(path)
  IN
  /\ dirs' = IF out = "pinned" THEN dirs ELSE dirs \cup Ancestors(Dirname(dest))
  /\ fetches' = IF out \in {"pinned", "dry"} THEN fetches ELSE Append(fetches, path)
  /\ backups' = IF out = "backup_write" THEN MoveToBackup(dest) ELSE backups
  /\ fs' = IF out \in {"backup_write", "write"} THEN [fs EXCEPT ![dest] = data] ELSE fs
  /\ perm' = IF out = "backup_write" THEN [perm EXCEPT ![dest] = "rw"] ELSE perm
  /\ hashfile' = IF out \in {"backup_write", "write"}
                 THEN Append(hashfile, LedgerLine(path, dest))
                 ELSE hashfile
  /\ logfile' =
       CASE out = "pinned" -> Append(logfile, LogLine("pinned", path))
         [] out = "dry" -> Append(logfile, LogLine("dry", path))
         [] out = "failed" -> Append(logfile, LogLine("failed", path))
         [] out = "backup_write" ->
              logfile \o << LogLine("backup", path), LogLine("fetched", path) >>
         [] out = "write" -> Append(logfile, LogLine("fetched", path))
         [] OTHER -> logfile

\* ---------------------------------------------------------------- initial states
\* What an earlier sync left behind: the manifest and the git plugin at
\* commit 1, with one ledger line and one log line per file.
Installed ==
  CORE_FILES \o LIB_FILES \o TOOLS_FILES \o << plugin_file("git") >>

\* The states of the watched file tried: as installed, edited by the user
\* (text, or bytes that are not UTF-8), write-protected, unreadable.
WatchedChoices ==
  { [data |-> RemoteContent(Watched, 1), perm |-> "rw"],
    [data |-> LocalText, perm |-> "rw"],
    [data |-> LocalBinary, perm |-> "rw"],
    [data |-> RemoteContent(Watched, 1), perm |-> "ro"],
    [data |-> RemoteContent(Watched, 1), perm |-> "none"] }

\* LOG_DIR exists once the module is loaded.
FreshDirs == { <<>>, <<"log">> }

InitFresh ==
  /\ fs = [d \in Dests |-> Absent]
  /\ perm = [d \in Dests |-> "rw"]
  /\ dirs = FreshDirs
  /\ hashfile = <<>>
  /\ logfile = <<>>

InitInstalled ==
  \E w \in WatchedChoices :
    /\ fs = [d \in Dests |->
               IF d = Dest(Watched) THEN w.data
               ELSE IF d.rel \in Range(Installed) THEN RemoteContent(d.rel, 1)
               ELSE Absent]
    /\ perm = [d \in Dests |-> IF d = Dest(Watched) THEN w.perm ELSE "rw"]
    /\ dirs = FreshDirs \cup UNION { Ancestors(f.dir) : f \in Range(Installed) }
    /\ hashfile = [k \in 1..Len(Installed) |->
                     [path |-> Installed[k],
                      digest |-> Hash(RemoteContent(Installed[k], 1))]]
    /\ logfile = [k \in 1..Len(Installed) |->
                    [ts |-> 0, kind |-> "fetched", path |-> Installed[k]]]
                 \o << [ts |-> 0, kind |-> "complete", path |-> NoPath] >>

NoArgs == [sync |-> FALSE, restore |-> FALSE, dry_run |-> FALSE, diff |-> FALSE,
           pin |-> <<>>]

NoRun == [dry_run |-> FALSE, diff |-> FALSE, plugins |-> <<>>, theme |-> "",
          ret |-> "exit"]

Init ==
  /\ InitFresh \/ InitInstalled
  /\ backups = {}
  /\ fetches = <<>>
  /\ now = 0
  /\ remoteVer = 1
  /\ unreachable \in UnreachableChoices
  /\ zshrc \in ZshrcChoices
  /\ args = NoArgs
  /\ pinned = {}
  /\ pc = "args"
  /\ run = NoRun
  /\ phase = "none"
  /\ i = 1
  /\ processed = <<>>
  /\ last = [path |-> NoPath, before |-> Absent]
  /\ started = 0
  /\ log0 = Len(logfile)

\* ---------------------------------------------------------------- main
ArgChoices ==
  { a \in [sync : BOOLEAN, restore : BOOLEAN, dry_run : BOOLEAN, diff : BOOLEAN,
           pin : PinArgChoices] : a.sync \/ a.restore }

\* pinned = the resolved --pin arguments, or else the resolved lines of PIN_FILE.
PinSet(a, pf) ==
  IF Len(a.pin) > 0 THEN { Resolve(p) : p \in Range(a.pin) }
  ELSE IF pf.exists THEN { Resolve(p) : p \in Range(pf.lines) }
  ELSE {}

world == << fs, perm, dirs, backups, hashfile, logfile, fetches >>

env == << now, remoteVer, unreachable, zshrc, log0 >>

ParseArgs ==
  /\ pc = "args"
  /\ \E a \in ArgChoices, pf \in PinFileChoices :
       /\ args' = a
       /\ pinned' = PinSet(a, pf)
  /\ pc' = "sync"
  /\ UNCHANGED << world, env, run, phase, i, processed, last, started >>

\* The call sync_plugins_and_theme(zshrc, dry_run, diff, pinned) up to its
\* first loop: an exception of parse_zshrc ends the process.
Begin(dry_run, diff, ret) ==
  LET decl == parse_zshrc(zshrc) IN
  /\ IF decl.raised
     THEN /\ pc' = "aborted"
          /\ UNCHANGED << run, phase, i, processed >>
     ELSE /\ pc' = "running"
          /\ run' = [dry_run |-> dry_run, diff |-> diff, plugins |-> decl.plugins,
                     theme |-> decl.theme, ret |-> ret]
          /\ phase' = "core"
          /\ i' = 1
          /\ processed' = <<>>
  /\ started' = started + 1
  /\ UNCHANGED << world, env, args, pinned, last >>

CallSync ==
  /\ pc = "sync"
  /\ args.sync
  /\ Begin(args.dry_run, args.diff, "restore")

SkipSync ==
  /\ pc = "sync"
  /\ ~args.sync
  /\ pc' = "restore"
  /\ UNCHANGED << world, env, args, pinned, run, phase, i, processed, last, started >>

CallRestore ==
  /\ pc = "restore"
  /\ args.restore
  /\ Begin(FALSE, FALSE, "exit")

SkipRestore ==
  /\ pc = "restore"
  /\ ~args.restore
  /\ pc' = "exit"
  /\ UNCHANGED << world, env, args, pinned, run, phase, i, processed, last, started >>

\* ---------------------------------------------------------------- sync_plugins_and_theme
\* Variant: the tools loop runs before the library loop.
NextPhaseToolsFirst(ph) ==
  CASE ph = "core" -> "tools"
    [] ph = "tools" -> "lib"
    [] ph = "lib" -> "plugins"
    [] ph = "plugins" -> "theme"

\* The loops of sync_plugins_and_theme, in the order the code runs them.
NextPhase(ph) ==
  CASE ph = "core" -> "lib"
    [] ph = "lib" -> "tools"
    [] ph = "tools" -> "plugins"
    [] ph = "plugins" -> "theme"

PhaseLen(ph) ==
  CASE ph = "core" -> Len(CORE_FILES)
    [] ph = "lib" -> Len(LIB_FILES)
    [] ph = "tools" -> Len(TOOLS_FILES)
    [] ph = "plugins" -> Len(run.plugins)
    [] OTHER -> 0

\* One iteration: fetch_file(f, os.path.join(OHMYZSH_DIR, f), ...); an
\* exception leaves the loop, the function and main.
Call(path) ==
  /\ fetch_file(path, Dest(path), run.dry_run, run.diff)
  /\ processed' = Append(processed, path)
  /\ last' = [path |-> path, before |-> fs[Dest(path)]]
  /\ IF Raises(Outcome(path, Dest(path), run.dry_run, run.diff))
     THEN pc' = "aborted" /\ i' = i
     ELSE pc' = pc /\ i' = i + 1
  /\ UNCHANGED << env, args, pinned, run, phase, started >>

CoreStep ==
  /\ pc = "running" /\ phase = "core" /\ i <= Len(CORE_FILES)
  /\ Call(CORE_FILES[i])

LibStep ==
  /\ pc = "running" /\ phase = "lib" /\ i <= Len(LIB_FILES)
  /\ Call(LIB_FILES[i])

ToolsStep ==
  /\ pc = "running" /\ phase = "tools" /\ i <= Len(TOOLS_FILES)
  /\ Call(TOOLS_FILES[i])

PluginStep ==
  /\ pc = "running" /\ phase = "plugins" /\ i <= Len(run.plugins)
  /\ Call(plugin_file(run.plugins[i]))

\* A loop ends and the next one starts.
NextLoop ==
  /\ pc = "running"
  /\ phase \in {"core", "lib", "tools", "plugins"}
  /\ i > PhaseLen(phase)
  /\ phase' = NextPhase(phase)
  /\ i' = 1
  /\ UNCHANGED << world, env, args, pinned, pc, run, processed, last, started >>

\* if theme: fetch_file(theme_file, ...)
ThemeStep ==
  /\ pc = "running" /\ phase = "theme" /\ i = 1
  /\ run.theme # ""
  /\ Call(theme_file(run.theme))

\* log("Sync complete") and the return to main.
SyncComplete ==
  /\ pc = "running" /\ phase = "theme"
  /\ run.theme = "" \/ i > 1
  /\ logfile' = Append(logfile, LogLine("complete", NoPath))
  /\ pc' = run.ret
  /\ phase' = "none"
  /\ i' = 1
  /\ UNCHANGED << fs, perm, dirs, backups, hashfile, fetches, env, args, pinned,
                  run, processed, last, started >>

\* ---------------------------------------------------------------- environment
\* The clock and the remote repository are observed to move between the steps
\* of main: before the arguments are read and before each pass.
Live == pc \in {"args", "sync", "restore"}

\* A second passes.
Tick ==
  /\ Live
  /\ now < MaxTime
  /\ now' = now + 1
  /\ UNCHANGED << world, remoteVer, unreachable, zshrc, log0, args, pinned, pc,
                  run, phase, i, processed, last, started >>

\* A commit lands in the remote repository.
RemoteAdvance ==
  /\ Live
  /\ remoteVer < MaxVer
  /\ remoteVer' = remoteVer + 1
  /\ UNCHANGED << world, now, unreachable, zshrc, log0, args, pinned, pc, run,
                  phase, i, processed, last, started >>

Next ==
  \/ ParseArgs
  \/ CallSync
  \/ SkipSync
  \/ CallRestore
  \/ SkipRestore
  \/ CoreStep
  \/ LibStep
  \/ ToolsStep
  \/ PluginStep
  \/ NextLoop
  \/ ThemeStep
  \/ SyncComplete
  \/ Tick
  \/ RemoteAdvance

Spec == Init /\ [][Next]_vars

\* ---------------------------------------------------------------- properties
\* A step that is one call of fetch_file, the remote path it is called with
\* and its destination.
CallStep == pc = "running" /\ Len(processed') = Len(processed) + 1

Cur == processed'[Len(processed')]

CurDest == Dest(Cur)

LastLog == logfile[Len(logfile)]

\* The lines a step appends to the audit log.
NewLog == SubSeq(logfile', Len(logfile) + 1, Len(logfile'))

IsPrefix(s, t) == Len(s) <= Len(t) /\ s = SubSeq(t, 1, Len(s))

\* The files of one run, from the manifests and the declarations of ~/.zshrc.
ExpectedFiles ==
  LET decl == parse_zshrc(zshrc) IN
  CORE_FILES \o LIB_FILES \o TOOLS_FILES
  \o [k \in 1..Len(decl.plugins) |-> plugin_file(decl.plugins[k])]
  \o (IF decl.theme # "" THEN << theme_file(decl.theme) >> ELSE <<>>)

\* C1: a call of fetch_file for a destination whose resolved path is pinned
\* makes no fetch, writes no file, directory, backup or ledger line and only
\* appends the 'skipped pinned file' notice, whatever the flags and the remote
\* content; and no step of a run changes a pinned destination or backs it up.
C1_PinnedUntouched ==
  [][ /\ (CallStep /\ Resolve(CurDest) \in pinned) =>
           /\ fetches' = fetches
           /\ fs' = fs /\ perm' = perm /\ dirs' = dirs
           /\ backups' = backups
           /\ hashfile' = hashfile
           /\ logfile' = Append(logfile, [ts |-> now, kind |-> "pinned", path |-> Cur])
      /\ pc = "running" =>
           \A d \in Dests : Resolve(d) \in pinned =>
             /\ fs'[d] = fs[d]
             /\ \A b \in backups' : b.dest = d => b \in backups ]_vars

\* A pinned file that differs from the remote content was skipped in a run
\* that is not a dry run.
C1_Witness ==
  /\ pc = "running" /\ ~run.dry_run
  /\ Len(logfile) > log0
  /\ LastLog.kind = "pinned" /\ LastLog.path = Watched
  /\ fs[Dest(Watched)] = LocalText
  /\ Watched \notin unreachable

\* C2: a call of fetch_file in dry-run mode makes no fetch and changes nothing
\* on the file system: no file, no backup, no directory, no ledger line.
C2_DryRunNoMutation ==
  [][ (CallStep /\ run.dry_run) =>
        /\ fetches' = fetches
        /\ fs' = fs /\ perm' = perm
        /\ backups' = backups
        /\ dirs' = dirs
        /\ hashfile' = hashfile ]_vars

\* C3: a call of fetch_file, not pinned and not a dry run, whose fetch succeeds
\* with the content the destination already holds creates no backup and leaves
\* the destination's bytes as they were.
C3_IdenticalNoBackup ==
  [][ ( /\ CallStep
        /\ Resolve(CurDest) \notin pinned
        /\ ~run.dry_run
        /\ Cur \notin unreachable
        /\ fs[CurDest] # Absent
        /\ fs[CurDest] = RemoteContent(Cur, remoteVer) ) =>
        /\ backups' = backups
        /\ fs'[CurDest] = fs[CurDest] ]_vars

\* An installed file was fetched again with the same content and written.
C3_Witness ==
  /\ pc = "running"
  /\ Len(logfile) > log0
  /\ LastLog.kind = "fetched" /\ LastLog.path = last.path
  /\ last.before # Absent
  /\ last.before = RemoteContent(last.path, remoteVer)
  /\ fs[Dest(last.path)] = last.before
  /\ backups = {}

\* C4: a call of fetch_file, not pinned and not a dry run, whose fetch succeeds
\* with content that differs from the existing destination's adds exactly one
\* backup file, <dest>.<timestamp> holding the old bytes, and leaves the fetched
\* bytes at the destination.
C4_DifferingBackedUp ==
  [][ ( /\ CallStep
        /\ Resolve(CurDest) \notin pinned
        /\ ~run.dry_run
        /\ Cur \notin unreachable
        /\ fs[CurDest] # Absent
        /\ fs[CurDest] # RemoteContent(Cur, remoteVer) ) =>
        /\ backups' \ backups = { [dest |-> CurDest, ts |-> now, data |-> fs[CurDest]] }
        /\ Cardinality(backups') = Cardinality(backups) + 1
        /\ fs'[CurDest] = RemoteContent(Cur, remoteVer) ]_vars

\* C5: a call of fetch_file whose fetch fails at transport level logs the
\* failure, leaves every file, backup and ledger line as it was, and returns to
\* the loop, which goes on to its next element.
C5_FetchFailureSkips ==
  [][ ( /\ CallStep
        /\ Resolve(CurDest) \notin pinned
        /\ ~run.dry_run
        /\ Cur \in unreachable ) =>
        /\ fs' = fs /\ perm' = perm
        /\ backups' = backups
        /\ hashfile' = hashfile
        /\ logfile' = Append(logfile, [ts |-> now, kind |-> "failed", path |-> Cur])
        /\ pc' = "running"
        /\ phase' = phase /\ i' = i + 1 ]_vars

\* A fetch failed and a later file of the same run was fetched and written.
C5_Witness ==
  /\ pc = "running"
  /\ Len(logfile) >= log0 + 2
  /\ logfile[Len(logfile) - 1].kind = "failed"
  /\ LastLog.kind = "fetched"
  /\ LastLog.path # logfile[Len(logfile) - 1].path

\* C6: no error raised while one file is processed keeps a later file of the
\* run from being processed: a run that has called fetch_file never ends
\* before it has called it for every file of the run.
C6_ErrorsAreLocal ==
  (pc = "aborted" /\ phase # "none") => Len(processed) = Len(ExpectedFiles)

\* C7: every call of sync_plugins_and_theme appends its 'Sync complete' entry:
\* when the process has ended, the audit log holds one such entry for each
\* call it entered.
C7_SyncCompleteLogged ==
  pc \in {"exit", "aborted"} =>
    Cardinality({ k \in (log0 + 1)..Len(logfile) : logfile[k].kind = "complete" })
      = started

\* C8: the hash ledger only grows, by one line at a time; a call of fetch_file
\* appends a line exactly when it logs the file as fetched and written, and the
\* line holds the remote path and the digest of the fetched content; a pinned
\* file, a dry run and a failed fetch append nothing.
C8_LedgerAppendOnly ==
  [][ /\ IsPrefix(hashfile, hashfile')
      /\ Len(hashfile') <= Len(hashfile) + 1
      /\ hashfile' # hashfile => CallStep
      /\ CallStep =>
           LET fetched == \E k \in 1..Len(NewLog) : NewLog[k].kind = "fetched" IN
           /\ fetched <=> (hashfile' # hashfile)
           /\ fetched => /\ fs'[CurDest] = RemoteContent(Cur, remoteVer)
                         /\ hashfile'[Len(hashfile')] =
                              [path |-> Cur,
                               digest |-> Hash(RemoteContent(Cur, remoteVer))]
           /\ ( \/ Resolve(CurDest) \in pinned
                \/ run.dry_run
                \/ Cur \in unreachable ) => hashfile' = hashfile ]_vars

\* The ledger holds the same line twice (a file fetched again with the same
\* content), one of them written by this process after a differing file was
\* replaced.
C8_Witness ==
  /\ Len(hashfile) > 0
  /\ \E j, k \in 1..Len(hashfile) : j < k /\ hashfile[j] = hashfile[k]
  /\ backups # {}
  /\ \E k \in (log0 + 1)..Len(logfile) : logfile[k].kind = "failed"

\* C9: a backup file, once created, stays as it is: no step removes it or
\* replaces its contents.
C9_BackupsKept ==
  [][ \A b \in backups : b \in backups' ]_vars

\* C10: the files of a run are processed in the order core manifest, library
\* manifest, tools manifest, declared plugins in declaration order, theme if
\* one is declared; and the audit entries a call appends are about its file.
C10_FixedOrder ==
  [][ /\ pc' = "running" => IsPrefix(processed', ExpectedFiles')
      /\ CallStep => \A k \in 1..Len(NewLog) : NewLog[k].path = Cur ]_vars

\* A run over the manifests, two plugins and a theme has ended.
C10_Witness ==
  /\ pc = "exit"
  /\ Len(parse_zshrc(zshrc).plugins) = 2
  /\ parse_zshrc(zshrc).theme # ""
  /\ processed = ExpectedFiles
  /\ Len(processed) = Len(CORE_FILES) + Len(LIB_FILES) + Len(TOOLS_FILES) + 3

====
